---- MODULE Spec2Model ----
(***************************************************************************)
(* A model of the dyshell command interpreter (main.go): the key-enter     *)
(* handler, handleCommand, substituteCommand, the builtin table, the       *)
(* process launchers, the path cache with its eviction timers and the job  *)
(* list.                                                                   *)
(*                                                                         *)
(* Text.  A command line is a sequence of symbols.  A symbol is either one *)
(* of the characters the interpreter inspects (space, newline, | & > < \   *)
(* $ ( ) = ' ) or a word: a maximal run of other characters, kept whole.   *)
(* A token (an element of args) is again a sequence of symbols, so the     *)
(* token  ls>f  is <<"ls", ">", "f">>.  The string functions of the Go     *)
(* library the code calls are defined on these sequences below, with the   *)
(* 0-based indices and the -1 of the library.                              *)
(***************************************************************************)
EXTENDS Integers, Sequences, FiniteSets, TLC

SP == " "
NL == "\n"
PIPE == "|"
AMP == "&"
GT == ">"
LT == "<"
BSL == "\\"
DOLLAR == "$"
LPAR == "("
RPAR == ")"
EQ == "="
QUOTE == "'"

Special == {SP, NL, PIPE, AMP, GT, LT, BSL, DOLLAR, LPAR, RPAR, EQ, QUOTE}

IsWord(c) == c \notin Special

IsSpace(c) == c \in {SP, NL}

(* s[lo:hi] of Go *)
Slice(s, lo, hi) == SubSeq(s, lo + 1, hi)

(* s[lo:] of Go *)
SliceFrom(s, lo) == SubSeq(s, lo + 1, Len(s))

(* strings.Index(s, c) for a one-character c *)
Index(s, c) ==
  IF \E i \in 1..Len(s) : s[i] = c
  THEN (CHOOSE i \in 1..Len(s) : s[i] = c /\ \A j \in 1..(i - 1) : s[j] # c) - 1
  ELSE -1

(* strings.Index(s, "$(") *)
IndexMarker(s) ==
  LET hit(i) == s[i] = DOLLAR /\ s[i + 1] = LPAR
  IN  IF \E i \in 1..(Len(s) - 1) : hit(i)
      THEN (CHOOSE i \in 1..(Len(s) - 1) : hit(i) /\ \A j \in 1..(i - 1) : ~hit(j)) - 1
      ELSE -1

(* strings.Contains(s, c) *)
Contains(s, c) == \E i \in 1..Len(s) : s[i] = c

(* strings.HasSuffix(s, c) *)
HasSuffix(s, c) == Len(s) > 0 /\ s[Len(s)] = c

(* strings.TrimSuffix(s, c) *)
TrimSuffix(s, c) == IF HasSuffix(s, c) THEN SubSeq(s, 1, Len(s) - 1) ELSE s

RECURSIVE TrimLeftSpace(_)
TrimLeftSpace(s) ==
  IF s # <<>> /\ IsSpace(Head(s)) THEN TrimLeftSpace(Tail(s)) ELSE s

RECURSIVE TrimRightSpace(_)
TrimRightSpace(s) ==
  IF s # <<>> /\ IsSpace(s[Len(s)])
  THEN TrimRightSpace(SubSeq(s, 1, Len(s) - 1))
  ELSE s

(* strings.TrimSpace *)
TrimSpace(s) == TrimRightSpace(TrimLeftSpace(s))

(* strings.Split(s, sep) for a one-character sep: never empty, keeps empty tokens *)
RECURSIVE Split(_, _)
Split(s, sep) ==
  LET i == Index(s, sep)
  IN  IF i = -1 THEN <<s>>
      ELSE <<Slice(s, 0, i)>> \o Split(SliceFrom(s, i + 1), sep)

(* strings.SplitN(s, sep, 2) *)
SplitN2(s, sep) ==
  LET i == Index(s, sep)
  IN  IF i = -1 THEN <<s>> ELSE <<Slice(s, 0, i), SliceFrom(s, i + 1)>>

(* strings.Fields: the maximal runs of non-space symbols *)
RECURSIVE Fields(_)
Fields(s) ==
  LET t == TrimLeftSpace(s)
      n == IF \E i \in 1..Len(t) : IsSpace(t[i])
           THEN (CHOOSE i \in 1..Len(t) : IsSpace(t[i]) /\ \A j \in 1..(i - 1) : ~IsSpace(t[j])) - 1
           ELSE Len(t)
  IN  IF t = <<>> THEN <<>>
      ELSE <<SubSeq(t, 1, n)>> \o Fields(SubSeq(t, n + 1, Len(t)))

(* strings.Join(args, " ") *)
RECURSIVE Join(_)
Join(args) ==
  IF args = <<>> THEN <<>>
  ELSE IF Len(args) = 1 THEN args[1]
  ELSE args[1] \o <<SP>> \o Join(Tail(args))

(* strings.Trim(s, "'\"") restricted to the quote of the alphabet *)
RECURSIVE TrimQuotes(_)
TrimQuotes(s) ==
  IF s # <<>> /\ Head(s) = QUOTE THEN TrimQuotes(Tail(s))
  ELSE IF s # <<>> /\ s[Len(s)] = QUOTE THEN TrimQuotes(SubSeq(s, 1, Len(s) - 1))
  ELSE s

(* Go maps as functions *)
EmptyMap == [x \in {} |-> <<>>]
Put(m, k, v) == [x \in (DOMAIN m) \cup {k} |-> IF x = k THEN v ELSE m[x]]
Del(m, k) == [x \in (DOMAIN m) \ {k} |-> m[x]]

(***************************************************************************)
(* Bounds of the model and constants of the program.                       *)
(***************************************************************************)
(* at most this many non-empty lines are submitted in one session *)
MaxHist == 3
(* the clock (in minutes) stops advancing here *)
MaxTime == 7
(* substituteCommand's runs of /bin/sh are counted up to here *)
MaxSpawn == 2
(* the program is run at most this many times *)
MaxSession == 2
(* at most this many lines are submitted where every kind of line is typed *)
MaxDispatch == 2
(* the number of lines a pipe of the kernel holds before a write to it blocks *)
PipeCap == 2
(* cacheExpiration = 5 * time.Minute, in minutes *)
cacheExpiration == 5

(* the builtins map set up by init() *)
builtins ==
  {"echo", "exit", "type", "pwd", "cd", "whoami", "ls", "cat", "touch", "rm",
   "mkdir", "rmdir", "history", "clear", "alias", "unalias", "export", "unset",
   "jobs", "fg", "bg", "kill", "shell"}

(* builtins[cmd] for a token *)
IsBuiltin(cmd) == Len(cmd) = 1 /\ cmd[1] \in builtins

(***************************************************************************)
(* The machine around the interpreter: the directories of PATH, in order,  *)
(* the programs installed in them and what those programs do.              *)
(***************************************************************************)
PathDirs == <<"/bin", "/usr/bin">>

InitExecs ==
  {<<"/bin", "echo">>, <<"/bin", "cat">>, <<"/bin", "sleep">>, <<"/bin", "false">>,
   <<"/usr/bin", "b">>, <<"/usr/bin", "c">>, <<"/usr/bin", "p">>, <<"/usr/bin", "seq">>}

(* the pid of the first process the interpreter starts (1 is init's) *)
FirstPid == 2

(* a program an installation may add in front of an existing one *)
Shadow == <<"/bin", "p">>

VARIABLES
  input,        \* the in-progress input buffer (var input)
  history,      \* var history
  aliases,      \* var aliases
  envVars,      \* var envVars
  osEnv,        \* the process environment (os.Setenv / os.Getenv)
  commandCache, \* var commandCache
  timers,       \* the pending time.AfterFunc eviction timers
  now,          \* the clock, in minutes
  jobs,         \* var jobs
  alive,        \* the pids of the running processes started in the background
  nextPid,      \* the pid the next started process gets
  status,       \* "running", "exited" (os.Exit(0)) or "panicked"
  pc,           \* where handleCommand is: "idle", "subst" (in substituteCommand),
                \* "pstart" and "pwait" (the loops of executePipedCommands), "fg" (job.Wait())
  cmdLine,      \* handleCommand's cmdLine while pc = "subst"
  files,        \* the regular files of the working directory: name -> lines
  disk,         \* the two files written by exit
  execs,        \* the programs installed in the directories of PATH
  sink,         \* what the current dispatch wrote to its writer / textView
  gout,         \* what the current dispatch wrote to os.Stdout / os.Stderr
  last,         \* a record of the current dispatch
  submitted,    \* the non-empty lines the user has submitted, in order
  spawned,      \* the runs of /bin/sh by the current call of substituteCommand
  subFailed,    \* one of those runs failed
  scanned,      \* for each name, the result and the time of its latest PATH scan
  pipe,         \* the stages of the pipeline being run and the loop index
  waitFor,      \* the pid fg is waiting for, or 0
  goos,         \* the platform the interpreter was built for
  signals,      \* the signals the current dispatch sent, as <<pid, signal>>
  openFiles,    \* the file handles the interpreter holds open
  bare,         \* the shared tables this session accessed without holding mu
  session,      \* the number of this session (1 is the first run)
  custom,       \* the shell customization variables (shellBgOpacity, ...)
  mu            \* var mu: "free" or "held"

vars ==
  <<input, history, aliases, envVars, osEnv, commandCache, timers, now, jobs,
    alive, nextPid, status, pc, cmdLine, files, disk, execs, sink, gout, last,
    submitted, spawned, subFailed, scanned, pipe, waitFor, goos, signals,
    openFiles, bare, session, custom, mu>>

(* one entry written to a stream *)
Out(tag, text, n, m) == [tag |-> tag, text |-> text, n |-> n, m |-> m]

(* os.Stat(filepath.Join(dir, cmd)) succeeds; joining "" gives the directory *)
StatOk(dir, cmd) == cmd = <<>> \/ (Len(cmd) = 1 /\ <<dir, cmd[1]>> \in execs)

(* the PATH scan of handleCommand and type: the first directory that has cmd, or 0 *)
ScanPath(cmd) ==
  IF \E i \in 1..Len(PathDirs) : StatOk(PathDirs[i], cmd)
  THEN CHOOSE i \in 1..Len(PathDirs) :
         StatOk(PathDirs[i], cmd) /\ \A j \in 1..(i - 1) : ~StatOk(PathDirs[j], cmd)
  ELSE 0

(* filepath.Join(dir, cmd) *)
FullPath(dir, cmd) == [dir |-> dir, name |-> cmd]

(* exec.LookPath(name), as exec.Command does for a name without a separator *)
LookPathOk(name) == Len(name) = 1 /\ \E i \in 1..Len(PathDirs) : <<PathDirs[i], name[1]>> \in execs

(* what a program prints on its standard output and whether it exits 0 *)
ProgRun(argv, stdin) ==
  LET name == argv[1][1]
      args == Tail(argv)
  IN  CASE name = "echo" -> [ok |-> TRUE, out |-> <<Join(args)>>]
        [] name = "cat" ->
             IF args = <<>> THEN [ok |-> TRUE, out |-> stdin]
             ELSE IF args[1] \in DOMAIN files THEN [ok |-> TRUE, out |-> files[args[1]]]
             ELSE [ok |-> FALSE, out |-> <<>>]
        [] name = "sleep" -> [ok |-> TRUE, out |-> <<>>]
        [] name = "false" -> [ok |-> FALSE, out |-> <<>>]
        [] name = "seq" ->
             IF args = <<(<<"9">>)>>
             THEN [ok |-> TRUE,
                   out |-> << <<"1">>, <<"2">>, <<"3">>, <<"4">>, <<"5">>, <<"6">>, <<"7">>,
                              <<"8">>, <<"9">> >>]
             ELSE [ok |-> FALSE, out |-> <<>>]
        [] OTHER -> [ok |-> TRUE, out |-> <<Join(argv)>>]

(* exec.Command("/bin/sh", "-c", subCmd).Output(): err == nil and the output *)
RunSh(subCmd) ==
  LET f == Fields(subCmd)
  IN  IF f = <<>> THEN [ok |-> TRUE, out |-> <<>>]
      ELSE IF Contains(subCmd, LPAR) THEN [ok |-> FALSE, out |-> <<>>]
      ELSE IF f[1] = <<"echo">> THEN [ok |-> TRUE, out |-> Join(Tail(f)) \o <<NL>>]
      ELSE IF f[1] = <<"true">> THEN [ok |-> TRUE, out |-> <<>>]
      ELSE IF f = <<(<<"seq">>), (<<"2">>)>> THEN [ok |-> TRUE, out |-> <<"1", NL, "2", NL>>]
      ELSE [ok |-> FALSE, out |-> <<>>]

(* the environment the interpreter's process inherits *)
InheritedEnv == [k \in {<<"U">>} |-> <<"u">>]

(* os.Setenv on the environment env: an empty name is refused (EINVAL) *)
Setenv(env, key, value) == IF key = <<>> THEN env ELSE Put(env, key, value)

(* os.Getenv *)
Getenv(name) == IF name \in DOMAIN osEnv THEN osEnv[name] ELSE <<>>

(* os.ExpandEnv: $NAME is replaced by its value, $$ by the empty value of the  *)
(* special variable, and a $ that no name follows stays                         *)
RECURSIVE ExpandEnv(_)
ExpandEnv(s) ==
  IF s = <<>> THEN <<>>
  ELSE IF Head(s) = DOLLAR /\ Len(s) >= 2
       THEN IF s[2] = DOLLAR THEN ExpandEnv(SliceFrom(s, 2))
            ELSE IF IsWord(s[2]) THEN Getenv(<<s[2]>>) \o ExpandEnv(SliceFrom(s, 2))
            ELSE <<DOLLAR>> \o ExpandEnv(Tail(s))
       ELSE <<Head(s)>> \o ExpandEnv(Tail(s))

(***************************************************************************)
(* The effect of a dispatch.  An executor takes the record b of the state  *)
(* it may change (with what the dispatch has done so far) and returns the  *)
(* set of records it may leave; the action Dispatch installs one of them.  *)
(***************************************************************************)
NoPath == [dir |-> "", name |-> <<>>]

(* the shell customization variables as init() sets them *)
InitCustom ==
  [shellBgOpacity |-> 100, shellTextSize |-> 12, shellTextColor |-> <<"white">>,
   shellTextBold |-> FALSE, shellPromptStyle |-> <<"default">>]

(* no pipeline is being run *)
NoPipe == [st |-> <<>>, i |-> 0]

(* the platforms of the build: signal_unix.go is compiled on the first only *)
Platforms == {"linux", "windows"}

Base ==
  [status |-> status, input |-> input, aliases |-> aliases, envVars |-> envVars,
   osEnv |-> osEnv, commandCache |-> commandCache, timers |-> timers, jobs |-> jobs,
   alive |-> alive, nextPid |-> nextPid, files |-> files, disk |-> disk,
   sink |-> sink, gout |-> gout,
   scanned |-> scanned,
   pc |-> "idle", pipe |-> pipe, waitFor |-> waitFor, signals |-> signals,
   openFiles |-> openFiles, bare |-> bare, custom |-> custom, mu |-> mu,
   mode |-> "none", cmd |-> <<>>, argv |-> <<>>, stages |-> <<>>, resolved |-> "na",
   path |-> NoPath, started |-> FALSE]

Write(b, e) == [b EXCEPT !.sink = Append(@, e)]

(* fmt.Fprint(writer, data), one entry per line of the data *)
RECURSIVE WriteLines(_, _, _)
WriteLines(b, tag, lines) ==
  IF lines = <<>> THEN b
  ELSE WriteLines(Write(b, Out(tag, Head(lines), 0, 0)), tag, Tail(lines))

PathText(p) == <<p.dir>> \o p.name

(* mu.Lock(): a flow that asks for mu while mu is held stands still for ever *)
Lock(b) ==
  IF b.mu = "held" THEN [b EXCEPT !.status = "deadlocked"] ELSE [b EXCEPT !.mu = "held"]

(* mu.Unlock() *)
Unlock(b) == IF b.status = "deadlocked" THEN b ELSE [b EXCEPT !.mu = "free"]

(* getCachedCommandPath: mu.Lock() and the deferred mu.Unlock() around the lookup *)
ReadUnderMu(b) == Unlock(Lock(b))

(* TakeJob as it would be with mu released only after the job was waited for *)
TakeJobHolding(b) == Lock(b)

(* case "fg" and case "bg": mu.Lock(); job := jobs[jobNumber-1]; mu.Unlock() *)
TakeJob(b) == Unlock(Lock(b))

(* the PATH scan found path for cmd: noted for the record of the dispatch *)
Scanned(b, cmd, path) ==
  [b EXCEPT !.resolved = "scan", !.path = path,
            !.scanned = Put(@, cmd, [path |-> path, at |-> now])]

(* cacheCommandPath as it would be with the timer armed a minute short *)
cacheCommandPathEarly(b, cmd, path) ==
  [b EXCEPT !.commandCache = Put(@, cmd, path),
            !.timers = Append(@, [cmd |-> cmd, due |-> now + cacheExpiration - 1])]

cacheCommandPath(b, cmd, path) ==
  [Unlock([Lock(b) EXCEPT !.commandCache = Put(@, cmd, path)])
     EXCEPT !.timers = Append(@, [cmd |-> cmd, due |-> now + cacheExpiration])]

(* getCachedCommandPath as it would be if the lookup never found an entry *)
getCachedCommandPathNever(b, cmd) == FALSE

(* getCachedCommandPath: found *)
getCachedCommandPath(b, cmd) == cmd \in DOMAIN b.commandCache

(* the alias and the environment file as saveAliasesAndEnvVars and saveEnvVars write them *)
AliasLine(k, v) == <<"alias", SP>> \o k \o <<EQ, QUOTE>> \o v \o <<QUOTE>>
EnvLine(k, v) == k \o <<EQ>> \o v

(* the lines a file holds once each of the records, which fmt.Fprintf ends      *)
(* with a newline, has been written to it: a newline inside a record ends a    *)
(* line as well                                                                *)
FileLines(records) ==
  UNION {{Split(r, NL)[i] : i \in 1..Len(Split(r, NL))} : r \in records}

saveAliasesAndEnvVars(b) ==
  Unlock([Lock(b) EXCEPT !.disk.aliasFile =
     FileLines({AliasLine(k, b.aliases[k]) : k \in DOMAIN b.aliases}
                 \cup {EnvLine(k, b.envVars[k]) : k \in DOMAIN b.envVars})])

saveEnvVars(b) ==
  Unlock([Lock(b) EXCEPT
            !.disk.envFile = FileLines({EnvLine(k, b.envVars[k]) : k \in DOMAIN b.envVars})])

(* case "type" *)
BuiltinType(b, args) ==
  IF args = <<>> THEN b
  ELSE LET arg == args[1]
           i == ScanPath(arg)
           bl == ReadUnderMu(b)
       IN  IF IsBuiltin(arg) THEN Write(b, Out("type-builtin", arg, 0, 0))
           ELSE IF getCachedCommandPath(b, arg)
           THEN [Write(bl, Out("type-is", PathText(b.commandCache[arg]), 0, 0))
                   EXCEPT !.resolved = "hit", !.path = b.commandCache[arg]]
           ELSE IF i # 0
           THEN cacheCommandPath(
                  Write(Scanned(bl, arg, FullPath(PathDirs[i], arg)),
                        Out("type-is", PathText(FullPath(PathDirs[i], arg)), 0, 0)),
                  arg, FullPath(PathDirs[i], arg))
           ELSE [Write(bl, Out("type-notfound", arg, 0, 0)) EXCEPT !.resolved = "notfound"]

(* case "cat" *)
RECURSIVE CatLoop(_, _)
CatLoop(b, args) ==
  IF args = <<>> THEN b
  ELSE CatLoop(
         IF Head(args) \in DOMAIN b.files
         THEN WriteLines(b, "data", b.files[Head(args)])
         ELSE Write(b, Out("cat-error", Head(args), 0, 0)),
         Tail(args))

BuiltinCat(b, args) ==
  IF args = <<>> THEN Write(b, Out("cat-missing", <<>>, 0, 0)) ELSE CatLoop(b, args)

(* case "touch": os.Create truncates *)
RECURSIVE TouchLoop(_, _)
TouchLoop(b, args) ==
  IF args = <<>> THEN b
  ELSE TouchLoop([b EXCEPT !.files = Put(@, Head(args), <<>>)], Tail(args))

BuiltinTouch(b, args) ==
  IF args = <<>> THEN Write(b, Out("touch-missing", <<>>, 0, 0)) ELSE TouchLoop(b, args)

(* case "rm" *)
RECURSIVE RmLoop(_, _)
RmLoop(b, args) ==
  IF args = <<>> THEN b
  ELSE RmLoop(
         IF Head(args) \in DOMAIN b.files
         THEN [b EXCEPT !.files = Del(@, Head(args))]
         ELSE Write(b, Out("rm-error", Head(args), 0, 0)),
         Tail(args))

BuiltinRm(b, args) ==
  IF args = <<>> THEN Write(b, Out("rm-missing", <<>>, 0, 0)) ELSE RmLoop(b, args)

(* case "history" *)
BuiltinHistory(b) ==
  LET RECURSIVE Loop(_, _)
      Loop(bb, i) ==
        IF i > Len(history) THEN bb
        ELSE Loop(Write(bb, Out("history", history[i], i, 0)), i + 1)
  IN  Unlock(Loop(Lock(b), 1))

(* case "alias" with arguments *)
RECURSIVE AliasLoop(_, _)
AliasLoop(b, args) ==
  IF args = <<>> THEN b
  ELSE LET parts == SplitN2(Head(args), EQ)
       IN  AliasLoop(
             IF Len(parts) = 2
             THEN Unlock([Lock(b) EXCEPT !.aliases = Put(@, parts[1], TrimQuotes(parts[2]))])
             ELSE b,
             Tail(args))

(* the orders in which a range over a map with these keys may run *)
Orders(keys) ==
  {o \in [1..Cardinality(keys) -> keys] : \A i, j \in DOMAIN o : i # j => o[i] # o[j]}

(* case "alias": the set of outcomes (a listing runs in any order) *)
BuiltinAlias(b, args) ==
  IF args = <<>>
  THEN {Unlock([Lock(b) EXCEPT !.sink = @ \o [i \in DOMAIN o |->
                                                 Out("alias", AliasLine(o[i], b.aliases[o[i]]), 0, 0)]]) :
          o \in Orders(DOMAIN b.aliases)}
  ELSE {AliasLoop(b, args)}

(* case "unalias" *)
RECURSIVE BuiltinUnalias(_, _)
BuiltinUnalias(b, args) ==
  IF args = <<>> THEN b
  ELSE BuiltinUnalias(Unlock([Lock(b) EXCEPT !.aliases = Del(@, Head(args))]), Tail(args))

(* case "export" *)
RECURSIVE BuiltinExport(_, _)
BuiltinExport(b, args) ==
  IF args = <<>> THEN b
  ELSE LET parts == SplitN2(Head(args), EQ)
       IN  BuiltinExport(
             IF Len(parts) = 2
             THEN Unlock([Lock([b EXCEPT !.osEnv = Setenv(@, parts[1], parts[2])])
                            EXCEPT !.envVars = Put(@, parts[1], parts[2])])
             ELSE b,
             Tail(args))

(* case "unset" *)
RECURSIVE BuiltinUnset(_, _)
BuiltinUnset(b, args) ==
  IF args = <<>> THEN b
  ELSE BuiltinUnset(
         Unlock([Lock([b EXCEPT !.osEnv = Del(@, Head(args))])
                   EXCEPT !.envVars = Del(@, Head(args))]),
         Tail(args))

(* BuiltinJobs as it would be if the jobs whose process has exited were left out *)
BuiltinJobsRunning(b) ==
  LET Running(j) == j.pid \in b.alive
      js == SelectSeq(b.jobs, Running)
  IN  [b EXCEPT !.sink = @ \o [i \in 1..Len(js) |-> Out("jobs", Join(js[i].args), i, js[i].pid)]]

(* case "jobs" *)
BuiltinJobs(b) ==
  Unlock([Lock(b) EXCEPT !.sink =
     @ \o [i \in 1..Len(b.jobs) |-> Out("jobs", Join(b.jobs[i].args), i, b.jobs[i].pid)]])

(* case "exit" *)
BuiltinExit(b) == [saveEnvVars(saveAliasesAndEnvVars(b)) EXCEPT !.status = "exited"]

(* strconv.Atoi on a token: the decimal numerals of the alphabet *)
Numerals == {"-1", "0", "1", "2", "3", "9", "50", "100", "101"}

NumeralValue(w) ==
  CASE w = "-1" -> 0 - 1
    [] w = "0" -> 0
    [] w = "1" -> 1
    [] w = "2" -> 2
    [] w = "3" -> 3
    [] w = "9" -> 9
    [] w = "50" -> 50
    [] w = "100" -> 100
    [] OTHER -> 101

Atoi(tok) ==
  IF Len(tok) = 1 /\ tok[1] \in Numerals
  THEN [ok |-> TRUE, v |-> NumeralValue(tok[1])]
  ELSE [ok |-> FALSE, v |-> 0]

(* an access to a shared table made without holding mu *)
Unlocked(b, table) == [b EXCEPT !.bare = @ \cup {table}]

(* fg and bg: err == nil && jobNumber > 0 && jobNumber <= len(jobs), where       *)
(* len(jobs) is read (without mu) only when the tests before it passed           *)
JobNumberOk(b, n) == n.ok /\ n.v > 0 /\ n.v <= Len(b.jobs)

JobNumberTest(b, n) == IF n.ok /\ n.v > 0 THEN Unlocked(b, "jobs") ELSE b

(* BuiltinFg as it would be without the call of job.Wait() *)
BuiltinFgNoWait(b, args) ==
  IF args = <<>> THEN b
  ELSE IF JobNumberOk(b, Atoi(args[1])) THEN JobNumberTest(b, Atoi(args[1]))
  ELSE Write(JobNumberTest(b, Atoi(args[1])), Out("fg-no-such-job", args[1], 0, 0))

(* case "fg": job.Wait() is where the dispatch then stands *)
BuiltinFg(b, args) ==
  IF args = <<>> THEN b
  ELSE LET n == Atoi(args[1])
           b1 == JobNumberTest(b, n)
       IN  IF JobNumberOk(b, n)
           THEN [TakeJob(b1) EXCEPT !.pc = "fg", !.waitFor = b.jobs[n.v].pid]
           ELSE Write(b1, Out("fg-no-such-job", args[1], 0, 0))

(* the sendSignalContinue of main.go, the one a call without arguments binds to *)
sendSignalContinue(b) == [b |-> b, err |-> "SIGCONT not supported on Windows"]

(* the sendSignalContinue of signal_unix.go: job.Process.Signal(syscall.SIGCONT) *)
sendSignalContinueUnix(b, job) ==
  [b |-> [b EXCEPT !.signals = @ \cup {<<job.pid, "SIGCONT">>}], err |-> ""]

(* case "bg" *)
BuiltinBg(b, args) ==
  IF args = <<>> THEN b
  ELSE LET n == Atoi(args[1])
           b1 == JobNumberTest(b, n)
           r == sendSignalContinue(TakeJob(b1))
       IN  IF JobNumberOk(b, n)
           THEN IF r.err # "" THEN Write(r.b, Out("bg-failed", <<r.err>>, 0, 0)) ELSE r.b
           ELSE Write(b1, Out("bg-no-such-job", args[1], 0, 0))

(* process.Kill() on the handle of os.FindProcess(pid): it succeeds on a running *)
(* process; on one that has exited and was not waited for it may go either way   *)
KillOutcomes(b, pid) ==
  IF pid \in b.alive THEN {TRUE}
  ELSE IF \E i \in 1..Len(b.jobs) : b.jobs[i].pid = pid THEN {TRUE, FALSE}
  ELSE {FALSE}

(* case "kill" *)
BuiltinKill(b, args) ==
  IF args = <<>> THEN {Write(b, Out("kill-missing", <<>>, 0, 0))}
  ELSE LET n == Atoi(args[1])
       IN  IF ~n.ok THEN {Write(b, Out("kill-invalid", args[1], 0, 0))}
           ELSE {IF ok
                 THEN [Write(b, Out("killed", <<>>, n.v, 0))
                         EXCEPT !.alive = @ \ {n.v},
                                !.signals = @ \cup {<<n.v, "SIGKILL">>}]
                 ELSE Write(b, Out("kill-failed", <<>>, n.v, 0))
                 : ok \in KillOutcomes(b, n.v)}

(* OpacityOk as it would be without the upper limit *)
OpacityOkNoLimit(n) == n.ok /\ n.v >= 0

(* handleShellCustomization: err == nil && opacity >= 0 && opacity <= 100 *)
OpacityOk(n) == n.ok /\ n.v >= 0 /\ n.v <= 100

(* handleShellCustomization: err == nil && size > 0 *)
SizeOk(n) == n.ok /\ n.v > 0

(* handleShellCustomization *)
handleShellCustomization(b, args) ==
  IF Len(args) < 2 THEN Write(b, Out("shell-usage", <<>>, 0, 0))
  ELSE LET option == args[1]
           value == Join(Tail(args))
           n == Atoi(value)
       IN  CASE option = <<"bg-opacity">> ->
                  IF OpacityOk(n)
                  THEN Write([b EXCEPT !.custom.shellBgOpacity = n.v],
                             Out("shell-set", option, n.v, 0))
                  ELSE Write(b, Out("shell-invalid", option, 0, 0))
             [] option = <<"text-size">> ->
                  IF SizeOk(n)
                  THEN Write([b EXCEPT !.custom.shellTextSize = n.v],
                             Out("shell-set", option, n.v, 0))
                  ELSE Write(b, Out("shell-invalid", option, 0, 0))
             [] option = <<"text-color">> ->
                  Write([b EXCEPT !.custom.shellTextColor = value],
                        Out("shell-set", option \o <<SP>> \o value, 0, 0))
             [] option = <<"text-bold">> ->
                  IF value = <<"true">>
                  THEN Write([b EXCEPT !.custom.shellTextBold = TRUE],
                             Out("shell-set", option \o <<SP, "true">>, 0, 0))
                  ELSE IF value = <<"false">>
                  THEN Write([b EXCEPT !.custom.shellTextBold = FALSE],
                             Out("shell-set", option \o <<SP, "false">>, 0, 0))
                  ELSE Write(b, Out("shell-invalid", option, 0, 0))
             [] option = <<"prompt-style">> ->
                  Write([b EXCEPT !.custom.shellPromptStyle = value],
                        Out("shell-set", option \o <<SP>> \o value, 0, 0))
             [] OTHER -> Write(b, Out("shell-unknown", <<>>, 0, 0))

(* printShellCustomization *)
printShellCustomization(b) ==
  [b EXCEPT !.sink = @ \o
     <<Out("shell-options", <<>>, 0, 0),
       Out("shell-option", <<"bg-opacity">>, b.custom.shellBgOpacity, 0),
       Out("shell-option", <<"text-size">>, b.custom.shellTextSize, 0),
       Out("shell-option", <<"text-color">> \o <<SP>> \o b.custom.shellTextColor, 0, 0),
       Out("shell-option", <<"text-bold">>, IF b.custom.shellTextBold THEN 1 ELSE 0, 0),
       Out("shell-option", <<"prompt-style">> \o <<SP>> \o b.custom.shellPromptStyle, 0, 0)>>]

(* case "shell" *)
BuiltinShell(b, args) ==
  IF Len(args) > 0 THEN handleShellCustomization(b, args) ELSE printShellCustomization(b)

(* executeBuiltinCommand: the set of outcomes.  The last arm stands for cd,     *)
(* mkdir, rmdir and clear, which act on nothing this state holds.               *)
executeBuiltinCommand(b0, cmd, args) ==
  LET b == [b0 EXCEPT !.mode = "builtin", !.cmd = cmd, !.argv = <<cmd>> \o args]
      verb == cmd[1]
  IN  CASE verb = "echo" -> {Write(b, Out("echo", Join(args), 0, 0))}
        [] verb = "exit" -> {BuiltinExit(b)}
        [] verb = "type" -> {BuiltinType(b, args)}
        [] verb = "cat" -> {BuiltinCat(b, args)}
        [] verb = "touch" -> {BuiltinTouch(b, args)}
        [] verb = "rm" -> {BuiltinRm(b, args)}
        [] verb = "history" -> {BuiltinHistory(b)}
        [] verb = "alias" -> BuiltinAlias(b, args)
        [] verb = "unalias" -> {BuiltinUnalias(b, args)}
        [] verb = "export" -> {BuiltinExport(b, args)}
        [] verb = "unset" -> {BuiltinUnset(b, args)}
        [] verb = "jobs" -> {BuiltinJobs(b)}
        [] verb = "fg" -> {BuiltinFg(b, args)}
        [] verb = "bg" -> {BuiltinBg(b, args)}
        [] verb = "kill" -> BuiltinKill(b, args)
        [] verb = "shell" -> {BuiltinShell(b, args)}
        [] verb \in {"pwd", "whoami", "ls"} -> {Write(b, Out(verb, <<>>, 0, 0))}
        [] OTHER -> {b}

(* cmd.Start() of a program looked up by name: it may fail even when the      *)
(* program exists (no process can be created), and fails when it does not      *)
StartOutcomes(name) == IF LookPathOk(name) THEN {TRUE, FALSE} ELSE {FALSE}

(* ReportJob as it would be with the index taken 0-based *)
ReportJobBefore(js, pid) == Out("job", <<>>, Len(js) - 1, pid)

(* fmt.Fprintf(writer, "[%d] %d\n", len(jobs), cmd.Process.Pid), after the append *)
ReportJob(js, pid) == Out("job", <<>>, Len(js), pid)

(* handleCommand, the background arm *)
Background(b0, l) ==
  LET b == [b0 EXCEPT !.mode = "background"]
      args == Fields(TrimSuffix(l, AMP))
      pid == b.nextPid
  IN  IF args = <<>> THEN {[b EXCEPT !.status = "panicked"]}
      ELSE {IF ok
            THEN [Unlocked(Unlock(Lock(b)), "jobs") EXCEPT !.argv = args, !.started = TRUE,
                           !.jobs = Append(@, [pid |-> pid, args |-> args]),
                           !.alive = @ \cup {pid},
                           !.nextPid = @ + 1,
                           !.sink = Append(@, ReportJob(Append(b.jobs, [pid |-> pid, args |-> args]), pid))]
            ELSE [b EXCEPT !.argv = args,
                           !.sink = Append(@, Out("error", args[1], 0, 0))]
            : ok \in StartOutcomes(args[1])}

(* the directories of the working directory *)
Dirs == {<<"d">>}

(* os.Create(name) succeeds: the name is not a directory's *)
CreateOk(b, name) == name \notin Dirs

(* os.Open(name) succeeds: the file exists *)
OpenOk(b, name) == name \in DOMAIN b.files

(* a file handle the interpreter has opened *)
OpenHandle(b, h) == [b EXCEPT !.openFiles = @ \cup {h}]

(* CloseDeferred as it would be had the Close calls not been deferred *)
CloseDeferredNone(b, hs) == b

(* the function returns: the deferred Close calls of the handles hs run *)
CloseDeferred(b, hs) == [b EXCEPT !.openFiles = @ \ hs]

(* executeRedirectedCommand *)
executeRedirectedCommand(b0, l) ==
  LET b == [b0 EXCEPT !.mode = "redirected"]
      redirectOutIndex == Index(l, GT)
      redirectInIndex == Index(l, LT)
      cmdArgs == IF redirectOutIndex # -1 THEN Fields(TrimSpace(Slice(l, 0, redirectOutIndex)))
                 ELSE IF redirectInIndex # -1 THEN Fields(TrimSpace(Slice(l, 0, redirectInIndex)))
                 ELSE Fields(l)
      redirectOut == IF redirectOutIndex # -1 THEN TrimSpace(SliceFrom(l, redirectOutIndex + 1))
                     ELSE <<>>
      redirectIn == IF redirectOutIndex = -1 /\ redirectInIndex # -1
                    THEN TrimSpace(SliceFrom(l, redirectInIndex + 1))
                    ELSE <<>>
      b1 == [b EXCEPT !.argv = cmdArgs]
      outFile == [name |-> redirectOut, mode |-> "w"]
      inFile == [name |-> redirectIn, mode |-> "r"]
      (* os.Create(redirectOut); defer outFile.Close() *)
      b2 == IF redirectOut # <<>>
            THEN OpenHandle([b1 EXCEPT !.files = Put(@, redirectOut, <<>>)], outFile)
            ELSE b1
      outDeferred == IF redirectOut # <<>> THEN {outFile} ELSE {}
      (* os.Open(redirectIn); defer inFile.Close() *)
      b3 == IF redirectIn # <<>> THEN OpenHandle(b2, inFile) ELSE b2
      deferred == outDeferred \cup (IF redirectIn # <<>> THEN {inFile} ELSE {})
      stdin == IF redirectIn # <<>> THEN b.files[redirectIn] ELSE <<>>
      r == ProgRun(cmdArgs, stdin)
      (* cmd.Run(): the standard output goes to the file, or nowhere *)
      ran == IF redirectOut # <<>> THEN [b3 EXCEPT !.files = Put(@, redirectOut, r.out)] ELSE b3
  IN  IF cmdArgs = <<>> THEN {[b EXCEPT !.status = "panicked"]}
      ELSE IF redirectOut # <<>> /\ ~CreateOk(b, redirectOut)
      THEN {Write(b1, Out("create-error", redirectOut, 0, 0))}
      ELSE IF redirectIn # <<>> /\ ~OpenOk(b, redirectIn)
      THEN {CloseDeferred(Write(b2, Out("open-error", redirectIn, 0, 0)), outDeferred)}
      ELSE {CloseDeferred(
              IF ok
              THEN IF r.ok THEN ran ELSE Write(ran, Out("error", cmdArgs[1], 0, 0))
              ELSE Write(b3, Out("error", cmdArgs[1], 0, 0)),
              deferred)
            : ok \in StartOutcomes(cmdArgs[1])}

(* executePipedCommands: the stages, each cmdArgs *)
Stages(l) ==
  LET commands == Split(l, PIPE)
  IN  [i \in 1..Len(commands) |-> Fields(TrimSpace(commands[i]))]

(* what stage i writes to its standard output, given which stages started *)
RECURSIVE StageOut(_, _, _)
StageOut(stages, started, i) ==
  IF ~started[i] THEN <<>>
  ELSE ProgRun(stages[i], IF i = 1 THEN <<>> ELSE StageOut(stages, started, i - 1)).out

(* executePipedCommands up to its second loop: every stage's exec.Command *)
executePipedCommands(b0, l) ==
  LET b == [b0 EXCEPT !.mode = "piped"]
      stages == Stages(l)
      n == Len(stages)
  IN  IF \E i \in 1..n : stages[i] = <<>> THEN {[b EXCEPT !.status = "panicked"]}
      ELSE {[b EXCEPT !.stages = stages, !.pc = "pstart",
                      !.pipe = [st |-> [i \in 1..n |-> "new"], i |-> 1]]}

(* executeExternalCommand *)
executeExternalCommand(b, path, args) ==
  LET r == ProgRun(<<path.name>> \o args, <<>>)
      b1 == [b EXCEPT !.argv = <<path.name>> \o args]
  IN  IF path.name = <<>> THEN Write(b1, Out("permission-denied", PathText(path), 0, 0))
      ELSE IF r.ok THEN WriteLines(b1, "stdout", r.out)
      ELSE Write(WriteLines(b1, "stdout", r.out), Out("exit-error", PathText(path), 0, 0))

(* handleCommand, the plain external arm *)
PlainExternal(b0, cmd, args) ==
  LET b == [b0 EXCEPT !.mode = "plain"]
      i == ScanPath(cmd)
      bl == ReadUnderMu(b)
  IN  IF getCachedCommandPath(b, cmd)
      THEN executeExternalCommand(
             [bl EXCEPT !.resolved = "hit", !.path = b.commandCache[cmd]],
             b.commandCache[cmd], args)
      ELSE IF i # 0
      THEN executeExternalCommand(
             cacheCommandPath(Scanned(bl, cmd, FullPath(PathDirs[i], cmd)),
                              cmd, FullPath(PathDirs[i], cmd)),
             FullPath(PathDirs[i], cmd), args)
      ELSE [Write(bl, Out("command-not-found", cmd, 0, 0))
              EXCEPT !.resolved = "notfound", !.argv = <<cmd>> \o args]

(* handleCommand, "Check for aliases": args with the leading token replaced *)
AliasSubst(args) ==
  IF args[1] \in DOMAIN aliases THEN <<aliases[args[1]]>> \o Tail(args) ELSE args

(* SelectMode as it would be with the builtin test made before the pipe test *)
SelectModeBuiltinFirst(l, cmd) ==
  IF HasSuffix(l, BSL) THEN "deferred"
  ELSE IF IsBuiltin(cmd) THEN "builtin"
  ELSE IF Contains(l, PIPE) THEN "piped"
  ELSE IF HasSuffix(l, AMP) THEN "background"
  ELSE IF Contains(l, GT) \/ Contains(l, LT) THEN "redirected"
  ELSE "plain"

(* handleCommand: the arm taken for the preprocessed line l with leading token cmd *)
SelectMode(l, cmd) ==
  IF HasSuffix(l, BSL) THEN "deferred"
  ELSE IF Contains(l, PIPE) THEN "piped"
  ELSE IF IsBuiltin(cmd) THEN "builtin"
  ELSE IF HasSuffix(l, AMP) THEN "background"
  ELSE IF Contains(l, GT) \/ Contains(l, LT) THEN "redirected"
  ELSE "plain"

(* handleCommand from os.ExpandEnv on: the set of outcomes for the line l0 *)
Outcomes(l0) ==
  LET l == ExpandEnv(l0)
      args == AliasSubst(Split(l, SP))
      cmd == args[1]
      m == SelectMode(l, cmd)
      (* aliases[cmd] is read, without mu, once the \ and | tests have failed *)
      b == IF m \in {"deferred", "piped"} THEN Base
           ELSE Unlocked([Base EXCEPT !.cmd = cmd], "aliases")
  IN  CASE m = "deferred" -> {[b EXCEPT !.mode = "deferred", !.input = @ \o <<NL>>]}
        [] m = "piped" -> executePipedCommands(b, l)
        [] m = "builtin" -> executeBuiltinCommand(b, cmd, Tail(args))
        [] m = "background" -> Background(b, l)
        [] m = "redirected" -> executeRedirectedCommand(b, l)
        [] OTHER -> {PlainExternal(b, cmd, Tail(args))}

NoDispatch == [mode |-> "none", line |-> <<>>, cmd |-> <<>>, argv |-> <<>>,
               stages |-> <<>>, resolved |-> "na", path |-> NoPath, started |-> FALSE]

(* the rest of handleCommand once substituteCommand has returned l0 *)
Dispatch(l0) ==
  \E e \in Outcomes(l0) :
    /\ status' = e.status
    /\ input' = e.input
    /\ aliases' = e.aliases
    /\ envVars' = e.envVars
    /\ osEnv' = e.osEnv
    /\ commandCache' = e.commandCache
    /\ timers' = e.timers
    /\ jobs' = e.jobs
    /\ alive' = e.alive
    /\ nextPid' = e.nextPid
    /\ files' = e.files
    /\ disk' = e.disk
    /\ sink' = e.sink
    /\ gout' = e.gout
    /\ last' = [mode |-> e.mode, line |-> ExpandEnv(l0), cmd |-> e.cmd, argv |-> e.argv,
                stages |-> e.stages, resolved |-> e.resolved, path |-> e.path,
                started |-> e.started]
    /\ scanned' = e.scanned
    /\ pc' = e.pc
    /\ pipe' = e.pipe
    /\ waitFor' = e.waitFor
    /\ signals' = e.signals
    /\ openFiles' = e.openFiles
    /\ bare' = e.bare
    /\ custom' = e.custom
    /\ mu' = e.mu
    /\ cmdLine' = <<>>

(***************************************************************************)
(* The startup load.                                                       *)
(***************************************************************************)
HasAliasPrefix(line) == Len(line) >= 2 /\ line[1] = "alias" /\ line[2] = SP

(* loadAliasesAndEnvVars and loadEnvVars, one line: t is [aliases, envVars,     *)
(* osEnv, bare]; the alias map is written without mu                            *)
LoadLine(t, line, aliasFile) ==
  IF aliasFile /\ HasAliasPrefix(line)
  THEN LET parts == SplitN2(SliceFrom(line, 2), EQ)
       IN  IF Len(parts) = 2
           THEN [t EXCEPT !.aliases = Put(@, parts[1], TrimQuotes(parts[2])),
                          !.bare = @ \cup {"aliases"}]
           ELSE t
  ELSE LET parts == SplitN2(line, EQ)
       IN  IF Len(parts) = 2
           THEN [t EXCEPT !.envVars = Put(@, parts[1], parts[2]),
                          !.osEnv = Setenv(@, parts[1], parts[2])]
           ELSE t

RECURSIVE LoadFile(_, _, _)
LoadFile(t, lines, aliasFile) ==
  IF lines = {} THEN t
  ELSE LET line == CHOOSE x \in lines : TRUE
       IN  LoadFile(LoadLine(t, line, aliasFile), lines \ {line}, aliasFile)

(* main: loadAliasesAndEnvVars(".my_shell_aliases"); loadEnvVars(".my_shell_env") *)
Startup(d) ==
  LoadFile(
    LoadFile([aliases |-> EmptyMap, envVars |-> EmptyMap, osEnv |-> InheritedEnv,
              bare |-> {}],
             d.aliasFile, TRUE),
    d.envFile, FALSE)

(* what the two files hold when the session starts: nothing (a first run), or   *)
(* what an earlier session saved                                                *)
InitDisks ==
  {[aliasFile |-> {}, envFile |-> {}],
   [aliasFile |-> {AliasLine(<<"a">>, <<"b">>), AliasLine(<<"b">>, <<"c">>),
                   AliasLine(<<"e">>, <<"echo">>), EnvLine(<<"V">>, <<"hi">>)},
    envFile |-> {EnvLine(<<"V">>, <<"hi">>)}]}

Init ==
  /\ disk \in InitDisks
  /\ aliases = Startup(disk).aliases
  /\ envVars = Startup(disk).envVars
  /\ osEnv = Startup(disk).osEnv
  /\ input = <<>>
  /\ history = <<>>
  /\ commandCache = EmptyMap
  /\ timers = <<>>
  /\ now = 0
  /\ jobs = <<>>
  /\ alive = {}
  /\ nextPid = FirstPid
  /\ status = "running"
  /\ pc = "idle"
  /\ cmdLine = <<>>
  /\ files = EmptyMap
  /\ execs = InitExecs
  /\ sink = <<>>
  /\ gout = <<>>
  /\ last = NoDispatch
  /\ submitted = <<>>
  /\ spawned = 0
  /\ subFailed = FALSE
  /\ scanned = EmptyMap
  /\ pipe = NoPipe
  /\ waitFor = 0
  /\ goos \in Platforms
  /\ signals = {}
  /\ openFiles = {}
  /\ bare = Startup(disk).bare
  /\ custom = InitCustom
  /\ mu = "free"
  /\ session = 1

(***************************************************************************)
(* The actions.                                                            *)
(***************************************************************************)
(* HistoryAppend as it would be if a line equal to the latest entry were skipped *)
HistoryAppendNoDup(h, line) ==
  IF h # <<>> /\ h[Len(h)] = line THEN h ELSE Append(h, line)

(* handleCommand, "Save command to history" *)
HistoryAppend(h, line) == Append(h, line)

(* The user types `typed` (KeyRune events) and presses Enter: the KeyEnter      *)
(* case of the input capture, and handleCommand up to the call of               *)
(* substituteCommand.                                                           *)
KeyEnter(typed) ==
  /\ status = "running"
  /\ pc = "idle"
  /\ Len(submitted) < MaxHist
  /\ LET line == TrimSpace(TrimSpace(input \o typed))
     IN  /\ input' = <<>>
         /\ sink' = <<Out("executing", line, 0, 0)>>
         /\ gout' = <<>>
         /\ signals' = {}
         /\ spawned' = 0
         /\ subFailed' = FALSE
         /\ IF line = <<>>
            THEN /\ last' = [NoDispatch EXCEPT !.mode = "empty"]
                 /\ UNCHANGED <<history, submitted, pc, cmdLine>>
            ELSE /\ mu = "free"
                 /\ history' = HistoryAppend(history, line)
                 /\ submitted' = Append(submitted, TrimSpace(input \o typed))
                 /\ pc' = "subst"
                 /\ cmdLine' = line
                 /\ last' = NoDispatch
  /\ UNCHANGED <<aliases, envVars, osEnv, commandCache, timers, now, jobs, alive,
                 nextPid, status, files, disk, execs, scanned, pipe, waitFor, goos,
                 openFiles, bare, session, custom, mu>>

(* One turn of the loop of substituteCommand; when the loop breaks, the rest of *)
(* handleCommand runs.                                                          *)
SubstituteStep ==
  /\ status = "running"
  /\ pc = "subst"
  /\ LET start == IndexMarker(cmdLine)
         rel == IF start = -1 THEN -1 ELSE Index(SliceFrom(cmdLine, start), RPAR)
         end == rel + start
         subCmd == Slice(cmdLine, start + 2, end)
         r == RunSh(subCmd)
     IN  IF start = -1 \/ rel = -1
         THEN /\ Dispatch(cmdLine)
              /\ UNCHANGED <<spawned, subFailed>>
         ELSE /\ cmdLine' = IF r.ok
                            THEN Slice(cmdLine, 0, start) \o TrimSpace(r.out)
                                   \o SliceFrom(cmdLine, end + 1)
                            ELSE cmdLine
              /\ spawned' = IF spawned < MaxSpawn THEN spawned + 1 ELSE spawned
              /\ subFailed' = (subFailed \/ ~r.ok)
              /\ UNCHANGED <<input, aliases, envVars, osEnv, commandCache, timers, jobs,
                             alive, nextPid, status, pc, files, disk, sink, gout, last,
                             scanned, pipe, waitFor, signals, openFiles, bare, custom, mu>>
  /\ UNCHANGED <<history, now, execs, submitted, goos, session>>

(* an eviction timer armed by cacheCommandPath fires *)
TimerFire ==
  \E i \in 1..Len(timers) :
    /\ timers[i].due <= now
    /\ mu = "free"
    /\ commandCache' = Del(commandCache, timers[i].cmd)
    /\ timers' = SubSeq(timers, 1, i - 1) \o SubSeq(timers, i + 1, Len(timers))
    /\ UNCHANGED <<input, history, aliases, envVars, osEnv, now, jobs, alive, nextPid,
                   status, pc, cmdLine, files, disk, execs, sink, gout, last, submitted,
                   spawned, subFailed, scanned, pipe, waitFor, goos,
                   signals, openFiles, bare, session, custom, mu>>

(* a minute passes; a timer that is due runs first (nothing holds mu for long) *)
Tick ==
  /\ now < MaxTime
  /\ \A i \in 1..Len(timers) : timers[i].due > now
  /\ now' = now + 1
  /\ UNCHANGED <<input, history, aliases, envVars, osEnv, commandCache, timers, jobs,
                 alive, nextPid, status, pc, cmdLine, files, disk, execs, sink, gout,
                 last, submitted, spawned, subFailed, scanned, pipe, waitFor, goos,
                   signals, openFiles, bare, session, custom, mu>>

(* a minute passes although a timer is due: the goroutine of time.AfterFunc    *)
(* has not run yet                                                              *)
TickLate ==
  /\ now < MaxTime
  /\ \E i \in 1..Len(timers) : timers[i].due <= now
  /\ now' = now + 1
  /\ UNCHANGED <<input, history, aliases, envVars, osEnv, commandCache, timers, jobs,
                 alive, nextPid, status, pc, cmdLine, files, disk, execs, sink, gout,
                 last, submitted, spawned, subFailed, scanned, pipe, waitFor, goos,
                 signals, openFiles, bare, session, custom, mu>>

(* a process started in the background exits *)
ProcExit ==
  \E p \in alive :
    /\ alive' = alive \ {p}
    /\ UNCHANGED <<input, history, aliases, envVars, osEnv, commandCache, timers, now,
                   jobs, nextPid, status, pc, cmdLine, files, disk, execs, sink, gout,
                   last, submitted, spawned, subFailed, scanned, pipe, waitFor, goos,
                   signals, openFiles, bare, session, custom, mu>>

(* somebody installs a program of an existing name earlier on the PATH *)
Install ==
  /\ Shadow \notin execs
  /\ execs' = execs \cup {Shadow}
  /\ UNCHANGED <<input, history, aliases, envVars, osEnv, commandCache, timers, now,
                 jobs, alive, nextPid, status, pc, cmdLine, files, disk, sink, gout,
                 last, submitted, spawned, subFailed, scanned, pipe, waitFor, goos,
                   signals, openFiles, bare, session, custom, mu>>

(* WaitReturns as it would be if only the last stage were waited for *)
WaitReturnsLast(st, i) == i < Len(st) \/ st[i] \in {"exited", "failed"}

(* cmd.Wait() on stage i returns: the stage has exited, or it never started *)
WaitReturns(st, i) == st[i] \in {"exited", "failed"}

(* the stage reads its standard input to the end before it exits *)
ReadsStdin(argv) == argv = <<(<<"cat">>)>>

(* the started stage i of the pipeline can write all its output: it is the     *)
(* last stage, writing to os.Stdout; or its output fits in the pipe of its      *)
(* StdoutPipe(); or the stage after it is running and reading that pipe, and    *)
(* can write what it reads. The read end the interpreter got from StdoutPipe()  *)
(* stays open until cmd.Wait() of stage i, so a write to a full pipe that no    *)
(* stage reads blocks and is never ended by a signal.                           *)
RECURSIVE CanWrite(_, _, _)
CanWrite(stages, st, i) ==
  IF i = Len(st) THEN TRUE
  ELSE IF Len(StageOut(stages, [k \in 1..Len(st) |-> st[k] # "failed"], i)) <= PipeCap THEN TRUE
  ELSE IF st[i + 1] = "running" /\ ReadsStdin(stages[i + 1]) THEN CanWrite(stages, st, i + 1)
  ELSE FALSE

(* the started stage i of the pipeline can come to its end: it can write all    *)
(* its output, and it reads nothing, or its standard input is at its end (no    *)
(* stage before it, or that stage's end of the pipe is closed)                  *)
CanExit(stages, st, i) ==
  IF ~CanWrite(stages, st, i) THEN FALSE
  ELSE IF ReadsStdin(stages[i]) /\ i > 1 THEN st[i - 1] \in {"exited", "failed"}
  ELSE TRUE

(* executePipedCommands, one turn of the second loop: the pipes are set and     *)
(* cmd.Start() is called, its error dropped                                     *)
PipeStart ==
  /\ status = "running"
  /\ pc = "pstart"
  /\ \E ok \in StartOutcomes(last.stages[pipe.i][1]) :
       LET st == [pipe.st EXCEPT ![pipe.i] = IF ok THEN "running" ELSE "failed"]
       IN  IF pipe.i = Len(pipe.st)
           THEN pc' = "pwait" /\ pipe' = [st |-> st, i |-> 1]
           ELSE pc' = pc /\ pipe' = [st |-> st, i |-> pipe.i + 1]
  /\ UNCHANGED <<input, history, aliases, envVars, osEnv, commandCache, timers, now,
                 jobs, alive, nextPid, status, cmdLine, files, disk, execs, sink, gout,
                 last, submitted, spawned, subFailed, scanned, waitFor, goos, signals,
                 openFiles, bare, session, custom, mu>>

(* a started stage of the pipeline exits; the last one has written its output   *)
(* to os.Stdout                                                                  *)
StageExit ==
  /\ pc \in {"pstart", "pwait"}
  /\ \E i \in 1..Len(pipe.st) :
       /\ pipe.st[i] = "running"
       /\ CanExit(last.stages, pipe.st, i)
       /\ pipe' = [pipe EXCEPT !.st[i] = "exited"]
       /\ gout' = IF i = Len(pipe.st)
                  THEN LET out == StageOut(last.stages,
                                           [k \in 1..Len(pipe.st) |-> pipe.st[k] # "failed"], i)
                       IN  gout \o [k \in 1..Len(out) |-> Out("stdout", out[k], 0, 0)]
                  ELSE gout
  /\ UNCHANGED <<input, history, aliases, envVars, osEnv, commandCache, timers, now,
                 jobs, alive, nextPid, status, pc, cmdLine, files, disk, execs, sink,
                 last, submitted, spawned, subFailed, scanned, waitFor, goos, signals,
                 openFiles, bare, session, custom, mu>>

(* executePipedCommands, one turn of the third loop: cmd.Wait() returns once the *)
(* stage has exited, and at once for a stage that did not start                  *)
PipeWait ==
  /\ status = "running"
  /\ pc = "pwait"
  /\ WaitReturns(pipe.st, pipe.i)
  /\ IF pipe.i = Len(pipe.st)
     THEN pc' = "idle" /\ pipe' = NoPipe
     ELSE pc' = pc /\ pipe' = [pipe EXCEPT !.i = @ + 1]
  /\ UNCHANGED <<input, history, aliases, envVars, osEnv, commandCache, timers, now,
                 jobs, alive, nextPid, status, cmdLine, files, disk, execs, sink, gout,
                 last, submitted, spawned, subFailed, scanned, waitFor, goos, signals,
                 openFiles, bare, session, custom, mu>>

(* case "fg": job.Wait() returns, the process of the job having exited *)
FgReturn ==
  /\ status = "running"
  /\ pc = "fg"
  /\ waitFor \notin alive
  /\ pc' = "idle"
  /\ waitFor' = 0
  /\ UNCHANGED <<input, history, aliases, envVars, osEnv, commandCache, timers, now,
                 jobs, alive, nextPid, status, cmdLine, files, disk, execs, sink, gout,
                 last, submitted, spawned, subFailed, scanned, pipe, goos, signals,
                 openFiles, bare, session, custom, mu>>

(* the program is run again after exit: init() and the startup load of main().   *)
(* The machine keeps its files, its processes and its clock.                     *)
Restart ==
  /\ status = "exited"
  /\ session < MaxSession
  /\ session' = session + 1
  /\ status' = "running"
  /\ aliases' = Startup(disk).aliases
  /\ envVars' = Startup(disk).envVars
  /\ osEnv' = Startup(disk).osEnv
  /\ bare' = Startup(disk).bare
  /\ custom' = InitCustom
  /\ mu' = "free"
  /\ input' = <<>>
  /\ history' = <<>>
  /\ commandCache' = EmptyMap
  /\ timers' = <<>>
  /\ jobs' = <<>>
  /\ pc' = "idle"
  /\ cmdLine' = <<>>
  /\ sink' = <<>>
  /\ gout' = <<>>
  /\ last' = NoDispatch
  /\ submitted' = <<>>
  /\ spawned' = 0
  /\ subFailed' = FALSE
  /\ scanned' = EmptyMap
  /\ pipe' = NoPipe
  /\ waitFor' = 0
  /\ signals' = {}
  /\ openFiles' = {}
  /\ UNCHANGED <<now, alive, nextPid, files, disk, execs, goos>>

(***************************************************************************)
(* The lines the user types, and the specifications.                       *)
(***************************************************************************)
DispatchLines ==
  {<<"p", SP, "x">>,
   <<"a", SP, "x">>,
   <<"e", SP, "hi">>,
   <<"a", SP, "x", SP, AMP>>,
   <<"a", SP, "x", SP, GT, SP, "f">>,
   <<"sleep", SP, "1", SP, AMP>>,
   <<"echo", SP, "hi", SP, GT, SP, "f">>,
   <<"p", SP, "hi", SP, GT, SP, "f">>,
   <<"p", SP, LT, SP, "f">>,
   <<"cat", SP, "f">>,
   <<"echo", SP, "hello", SP, PIPE, SP, "cat">>,
   <<"ls", SP, PIPE, SP, "cat", SP, GT, SP, "f", SP, AMP>>,
   <<"ls", SP, PIPE>>,
   <<AMP>>,
   <<GT, SP, "f">>,
   <<"exit">>,
   <<"jobs">>,
   <<"history">>,
   <<"nope">>,
   <<"echo", SP, DOLLAR, LPAR, "echo", SP, "hi", RPAR>>,
   <<"echo", SP, DOLLAR, LPAR, "false", RPAR>>,
   <<"echo", SP, DOLLAR, "V">>,
   <<"echo", SP, "a", SP, BSL>>,
   <<SP>>}

CacheLines ==
  {<<"p", SP, "x">>, <<"p">>, <<"type", SP, "p">>, <<"type", SP, "c">>, <<"nope">>}

Next ==
  \/ \E typed \in DispatchLines : Len(submitted) < MaxDispatch /\ KeyEnter(typed)
  \/ SubstituteStep
  \/ PipeStart
  \/ StageExit
  \/ PipeWait
  \/ ProcExit

Spec == Init /\ [][Next]_vars

NextCache ==
  \/ \E typed \in CacheLines : KeyEnter(typed)
  \/ SubstituteStep
  \/ TimerFire
  \/ Tick
  \/ Install

SpecCache == Init /\ [][NextCache]_vars

(* the cache with eviction timers that may run late *)
NextTimers ==
  \/ \E typed \in CacheLines : KeyEnter(typed)
  \/ SubstituteStep
  \/ TimerFire
  \/ Tick
  \/ TickLate

SpecTimers == Init /\ [][NextTimers]_vars

(* the lines of job control *)
JobLines ==
  {<<"sleep", SP, "1", SP, AMP>>,
   <<"jobs">>,
   <<"fg", SP, "1">>,
   <<"fg", SP, "x">>,
   <<"fg">>,
   <<"bg", SP, "1">>,
   <<"bg", SP, "0">>,
   <<"bg", SP, "-1">>,
   <<"bg", SP, "9">>,
   <<"bg", SP, "x">>,
   <<"kill", SP, "2">>,
   <<"kill", SP, "x">>,
   <<"kill">>}

NextJobs ==
  \/ \E typed \in JobLines : KeyEnter(typed)
  \/ SubstituteStep
  \/ FgReturn
  \/ ProcExit

SpecJobs == Init /\ [][NextJobs]_vars

(* the lock: a job in the foreground or a pipeline, with eviction timers pending *)
LockLines ==
  {<<"p">>,
   <<"sleep", SP, "1", SP, AMP>>,
   <<"fg", SP, "1">>,
   <<"jobs">>,
   <<"echo", SP, "hello", SP, PIPE, SP, "cat">>}

NextLock ==
  \/ \E typed \in LockLines : KeyEnter(typed)
  \/ SubstituteStep
  \/ FgReturn
  \/ ProcExit
  \/ PipeStart
  \/ StageExit
  \/ PipeWait
  \/ TimerFire
  \/ Tick

SpecLock == Init /\ [][NextLock]_vars

(* pipelines *)
PipeLines ==
  {<<"echo", SP, "hello", SP, PIPE, SP, "cat">>,
   <<"p", SP, "x", SP, PIPE, SP, "cat", SP, PIPE, SP, "cat">>,
   <<"p", SP, "x", SP, PIPE, SP, "p">>,
   <<"nope", SP, PIPE, SP, "cat">>,
   <<"seq", SP, "9", SP, PIPE, SP, "cat">>,
   <<"seq", SP, "9", SP, PIPE, SP, "nope">>,
   <<"cat", SP, PIPE>>}

NextPipe ==
  \/ \E typed \in PipeLines : KeyEnter(typed)
  \/ SubstituteStep
  \/ PipeStart
  \/ StageExit
  \/ PipeWait

SpecPipe == Init /\ [][NextPipe]_vars

(* redirections *)
RedirectLines ==
  {<<"p", SP, "hi", SP, GT, SP, "f">>,
   <<"p", SP, "hi", SP, GT, SP, "d">>,
   <<"p", SP, LT, SP, "f">>,
   <<"p", SP, LT, SP, "g">>,
   <<"false", SP, GT, SP, "f">>,
   <<"nope", SP, GT, SP, "f">>,
   <<GT, SP, "f">>}

NextRedirect ==
  \/ \E typed \in RedirectLines : KeyEnter(typed)
  \/ SubstituteStep

SpecRedirect == Init /\ [][NextRedirect]_vars

(* aliases and the environment *)
EnvLines ==
  {<<"alias", SP, "ll", EQ, QUOTE, "ls", SP, "-la", QUOTE>>,
   <<"ll">>,
   <<"alias", SP, "x", EQ, "y">>,
   <<"alias", SP, "x", EQ, QUOTE, "z", QUOTE>>,
   <<"alias", SP, "x">>,
   <<"unalias", SP, "x">>,
   <<"x">>,
   <<"export", SP, "A", EQ, "b">>,
   <<"export", SP, "U", EQ, "v">>,
   <<"export", SP, "A">>,
   <<"export", SP, EQ, "x">>,
   <<"unset", SP, "A">>,
   <<"unset", SP, "U">>}

NextEnv ==
  \/ \E typed \in EnvLines : KeyEnter(typed)
  \/ SubstituteStep

SpecEnv == Init /\ [][NextEnv]_vars

(* a session that changes the two maps and exits, and the next one *)
PersistLines ==
  {<<"alias", SP, "x", EQ, "y">>,
   <<"unalias", SP, "a">>,
   <<"export", SP, "A", EQ, "b">>,
   <<"export", SP, EQ, "x">>,
   <<"export", SP, "A", EQ, DOLLAR, LPAR, "seq", SP, "2", RPAR>>,
   <<"unset", SP, "V">>,
   <<"exit">>}

NextPersist ==
  \/ \E typed \in PersistLines : KeyEnter(typed)
  \/ SubstituteStep
  \/ Restart

SpecPersist == Init /\ [][NextPersist]_vars

(* the history of a session *)
HistoryLines ==
  {<<"nope">>, <<"history">>, <<"echo", SP, "hi">>, <<"exit">>, <<SP>>}

NextHistory ==
  \/ \E typed \in HistoryLines : KeyEnter(typed)
  \/ SubstituteStep

SpecHistory == Init /\ [][NextHistory]_vars

(* shell customization *)
ShellLines ==
  {<<"shell">>,
   <<"shell", SP, "bg-opacity">>,
   <<"shell", SP, "bg-opacity", SP, "50">>,
   <<"shell", SP, "bg-opacity", SP, "0">>,
   <<"shell", SP, "bg-opacity", SP, "101">>,
   <<"shell", SP, "bg-opacity", SP, "-1">>,
   <<"shell", SP, "bg-opacity", SP, "x">>,
   <<"shell", SP, "bg-opacity", SP, SP, "50">>,
   <<"shell", SP, "text-size", SP, "3">>,
   <<"shell", SP, "text-size", SP, "0">>,
   <<"shell", SP, "text-size", SP, "x">>,
   <<"shell", SP, "text-bold", SP, "true">>,
   <<"shell", SP, "text-bold", SP, "false">>,
   <<"shell", SP, "text-bold", SP, "yes">>,
   <<"shell", SP, "color", SP, "red">>}

NextShell ==
  \/ \E typed \in ShellLines : KeyEnter(typed)
  \/ SubstituteStep

SpecShell == Init /\ [][NextShell]_vars

(***************************************************************************)
(* The claims.                                                             *)
(***************************************************************************)
(* a step in which handleCommand finishes the dispatch of a line *)
Dispatched == pc = "subst" /\ pc' # "subst"

(* the entries of a stream that carry one of the tags *)
Tagged(stream, tags) ==
  LET Keep(e) == e.tag \in tags IN SelectSeq(stream, Keep)

(* the leading token of the line l after alias substitution with the map al *)
LeadingToken(l, al) ==
  LET t == Split(l, SP)[1] IN IF t \in DOMAIN al THEN al[t] ELSE t

(* the execution mode the precedence rules give the line l with leading token cmd *)
RuleMode(l, cmd) ==
  CASE Contains(l, PIPE) -> "piped"
    [] ~Contains(l, PIPE) /\ IsBuiltin(cmd) -> "builtin"
    [] ~Contains(l, PIPE) /\ ~IsBuiltin(cmd) /\ HasSuffix(l, AMP) -> "background"
    [] ~Contains(l, PIPE) /\ ~IsBuiltin(cmd) /\ ~HasSuffix(l, AMP)
         /\ (Contains(l, GT) \/ Contains(l, LT)) -> "redirected"
    [] OTHER -> "plain"

(* C1: every non-empty preprocessed line that reaches the dispatcher (it does    *)
(* not end in the continuation marker) is routed to the one mode the precedence  *)
(* pipe, builtin, background, redirection, plain gives it; a line with a pipe    *)
(* starts no job, creates no file and writes nothing builtin to the sink.        *)
C1_ModePrecedence ==
  [][/\ (Dispatched /\ last'.line # <<>> /\ ~HasSuffix(last'.line, BSL))
          => /\ last'.mode = RuleMode(last'.line, LeadingToken(last'.line, aliases))
             /\ Contains(last'.line, PIPE)
                  => (jobs' = jobs /\ files' = files /\ sink' = sink /\ aliases' = aliases)
     /\ pc \in {"pstart", "pwait"}
          => (jobs' = jobs /\ files' = files /\ sink' = sink /\ aliases' = aliases)]_vars

C1_Witness ==
  /\ last.mode = "piped"
  /\ Contains(last.line, GT)
  /\ HasSuffix(last.line, AMP)
  /\ IsBuiltin(Split(last.line, SP)[1])
  /\ status = "running"

(* C2: the session ends only through the exit builtin: whatever line was         *)
(* dispatched, the interpreter is running unless that line was exit.             *)
C2_OnlyExitEnds ==
  status # "running" => (status = "exited" /\ last.cmd = <<"exit">>)

(* the number of $( markers of a line *)
MarkerCount(l) == Cardinality({i \in 1..(Len(l) - 1) : l[i] = DOLLAR /\ l[i + 1] = LPAR})

(* C3: substituteCommand terminates: it runs each span at most once, and after   *)
(* a span's command has failed it has returned, the span left in place.          *)
C3_SubstituteReturns ==
  /\ subFailed => pc # "subst"
  /\ history # <<>> => spawned <= MarkerCount(history[Len(history)])

(* C4: when the leading token of a dispatched line is an alias a=b, the command  *)
(* executed is b with the line's remaining tokens, in builtin, background,       *)
(* redirected and plain mode alike.                                              *)
C4_AliasInEveryMode ==
  (/\ pc = "idle"
   /\ status = "running"
   /\ last.mode \in {"builtin", "background", "redirected", "plain"}
   /\ last.cmd \notin {<<"alias">>, <<"unalias">>}
   /\ Split(last.line, SP)[1] \in DOMAIN aliases)
    => /\ last.argv # <<>>
       /\ last.argv[1] = aliases[Split(last.line, SP)[1]]

(* C5: History is exactly the sequence of the submitted lines, in order, and     *)
(* the history builtin lists them numbered from 1.                               *)
C5_HistoryIsSubmitted ==
  /\ history = submitted
  /\ (pc = "idle" /\ last.mode = "builtin" /\ last.cmd = <<"history">>)
       => Tagged(sink, {"history"})
            = [i \in 1..Len(submitted) |-> Out("history", submitted[i], i, 0)]

C5_Witness ==
  /\ Len(submitted) = 3
  /\ submitted[1] = <<"nope">>
  /\ submitted[2] = <<"nope">>
  /\ last.cmd = <<"history">>
  /\ Len(Tagged(sink, {"history"})) = 3

(* the line has the form  cmd args > f  *)
IsOutputRedirection(l) ==
  /\ Contains(l, GT)
  /\ ~Contains(l, PIPE)
  /\ ~HasSuffix(l, AMP)
  /\ ~HasSuffix(l, BSL)
  /\ Fields(Slice(l, 0, Index(l, GT))) # <<>>
  /\ TrimSpace(SliceFrom(l, Index(l, GT) + 1)) # <<>>

RedirectTarget(l) == TrimSpace(SliceFrom(l, Index(l, GT) + 1))

(* C6: after  cmd args > f  the file f exists and the command's standard output  *)
(* is in f and not on the sink, for a builtin as for a program; after            *)
(* echo hi > f  the file f holds the line hi.                                    *)
C6_OutputGoesToFile ==
  (pc = "idle" /\ status = "running" /\ IsOutputRedirection(last.line))
    => /\ RedirectTarget(last.line) \in DOMAIN files
       /\ Tagged(sink, {"echo", "stdout", "data"}) = <<>>
       /\ last.line = <<"echo", SP, "hi", SP, GT, SP, "f">>
            => files[<<"f">>] = <<(<<"hi">>)>>

(* C7: a dispatch writes to its sink only, never to the process's own standard   *)
(* streams; the output of  echo hello | cat  arrives on the sink.                *)
C7_OutputOnSinkOnly ==
  /\ gout = <<>>
  /\ (pc = "idle" /\ status = "running"
      /\ last.line = <<"echo", SP, "hello", SP, PIPE, SP, "cat">>)
       => \E i \in 1..Len(sink) : sink[i].text = <<"hello">>

(* C8: after a line ending in the continuation marker the input buffer holds     *)
(* that line followed by a newline, so that the next submission completes it.    *)
C8_ContinuationKept ==
  (pc = "idle" /\ last.mode = "deferred")
    => input = submitted[Len(submitted)] \o <<NL>>

(* the dispatch recorded in l resolved a command name through the cache or PATH *)
Resolves(l) == l.resolved # "na"

(* the name that dispatch resolved: the command of a plain line, the operand of type *)
ResolvedName(l) == IF l.mode = "plain" THEN l.cmd ELSE l.argv[2]

(* the name n resolved by the dispatch that ends with this step *)
ResolvesNow(n) == Dispatched /\ Resolves(last') /\ ResolvedName(last') = n

C10_BackgroundJob ==
  [][/\ (Dispatched /\ last'.mode = "background" /\ last'.argv # <<>>)
          => /\ status' = "running"
             /\ IF last'.started
                THEN /\ Len(jobs') = Len(jobs) + 1
                     /\ SubSeq(jobs', 1, Len(jobs)) = jobs
                     /\ jobs'[Len(jobs')].args = last'.argv
                     /\ jobs'[Len(jobs')].pid \in alive' \ alive
                     /\ Tagged(sink', {"job", "error"})
                          = <<Out("job", <<>>, Len(jobs'), jobs'[Len(jobs')].pid)>>
                ELSE /\ jobs' = jobs
                     /\ alive' = alive
                     /\ Tagged(sink', {"job", "error"}) = <<Out("error", last'.argv[1], 0, 0)>>
     /\ (Dispatched /\ last'.mode = "builtin" /\ last'.cmd = <<"jobs">>)
          => /\ jobs' = jobs
             /\ Tagged(sink', {"jobs"})
                  = [i \in 1..Len(jobs) |-> Out("jobs", Join(jobs[i].args), i, jobs[i].pid)]]_vars

C10_Witness ==
  /\ Len(jobs) = 2
  /\ last.mode = "background"
  /\ last.started
  /\ jobs[2].pid \in alive
  /\ Tagged(sink, {"job"}) = <<Out("job", <<>>, 2, jobs[2].pid)>>
  /\ status = "running"

(* C11: the job list only grows, by appending: a job keeps its index, its pid    *)
(* and its argument vector whatever is dispatched (fg, bg, kill of its pid) and  *)
(* after its process has exited, and jobs goes on listing every entry.           *)
C11_JobsAppendOnly ==
  [][/\ Len(jobs') >= Len(jobs)
     /\ SubSeq(jobs', 1, Len(jobs)) = jobs
     /\ (Dispatched /\ last'.mode = "builtin" /\ last'.cmd = <<"jobs">>)
          => Len(Tagged(sink', {"jobs"})) = Len(jobs)
     /\ (Dispatched /\ last'.mode = "builtin" /\ last'.cmd \in {<<"fg">>, <<"bg">>, <<"kill">>})
          => jobs' = jobs]_vars

C11_Witness ==
  /\ Len(submitted) = 3
  /\ submitted[2] = <<"kill", SP, "2">>
  /\ Len(jobs) = 1
  /\ jobs[1] = [pid |-> 2, args |-> <<(<<"sleep">>), (<<"1">>)>>]
  /\ 2 \notin alive
  /\ pc = "idle"
  /\ last.cmd = <<"jobs">>
  /\ Tagged(sink, {"jobs"}) = <<Out("jobs", <<"sleep", SP, "1">>, 1, 2)>>

(* a stage of the pipeline exits in this step *)
StageExits(i) ==
  /\ i \in DOMAIN pipe.st
  /\ pipe.st[i] = "running"
  /\ i \in DOMAIN pipe'.st
  /\ pipe'.st[i] = "exited"

(* C12: in piped mode cmd.Start() has been called on every stage before the      *)
(* first cmd.Wait(); a stage that reads its standard input ends only after the   *)
(* stage before it, whose output it was given; and executePipedCommands returns  *)
(* only when no stage is running any more.                                       *)
C12_PipelineOrder ==
  [][/\ pc' = "pwait" => \A i \in DOMAIN pipe'.st : pipe'.st[i] # "new"
     /\ pc' = "pstart" => \A i \in DOMAIN pipe'.st : (i >= pipe'.i <=> pipe'.st[i] = "new")
     /\ \A i \in DOMAIN pipe.st :
          (StageExits(i) /\ i > 1 /\ ReadsStdin(last.stages[i]))
            => pipe.st[i - 1] \in {"exited", "failed"}
     /\ (pc = "pwait" /\ pc' = "idle")
          => /\ \A i \in DOMAIN pipe.st : pipe.st[i] \in {"exited", "failed"}
             /\ (last.line = <<"p", SP, "x", SP, PIPE, SP, "cat", SP, PIPE, SP, "cat">>
                 /\ \A i \in DOMAIN pipe.st : pipe.st[i] = "exited")
                  => Tagged(gout', {"stdout"}) = <<Out("stdout", <<"p", SP, "x">>, 0, 0)>>]_vars

C12_Witness ==
  /\ pc = "pwait"
  /\ pipe.i = 3
  /\ pipe.st = <<"exited", "exited", "exited">>
  /\ Tagged(gout, {"stdout"}) = <<Out("stdout", <<"p", SP, "x">>, 0, 0)>>

(* C13: every access to the alias map, the environment map, the path cache, the  *)
(* history and the job list is made while mu is held.                            *)
C13_AllUnderMu == bare = {}

(* the platform has the continue signal: signal_unix.go is part of the build *)
SupportsContinue == goos = "linux"

(* C14: bg N with 1 <= N <= #jobs sends the continue signal to the process of    *)
(* job N, and to no other, where the platform has the signal, and reports the    *)
(* not-supported error only where it has not; with any other argument it writes  *)
(* no such job and sends nothing.                                                *)
C14_BgContinues ==
  (pc = "idle" /\ last.mode = "builtin" /\ last.cmd = <<"bg">> /\ Len(last.argv) >= 2)
    => LET n == Atoi(last.argv[2])
       IN  IF n.ok /\ n.v >= 1 /\ n.v <= Len(jobs)
           THEN /\ Tagged(sink, {"bg-no-such-job"}) = <<>>
                /\ IF SupportsContinue
                   THEN /\ signals = {<<jobs[n.v].pid, "SIGCONT">>}
                        /\ Tagged(sink, {"bg-failed"}) = <<>>
                   ELSE /\ signals = {}
                        /\ Len(Tagged(sink, {"bg-failed"})) = 1
           ELSE /\ signals = {}
                /\ Tagged(sink, {"bg-no-such-job", "bg-failed"})
                     = <<Out("bg-no-such-job", last.argv[2], 0, 0)>>

(* C15: fg N with 1 <= N <= #jobs stands in job.Wait() until the process of job  *)
(* N has exited, and returns then; with any other argument it writes no such job *)
(* and waits for nothing; no other dispatch waits for a background job.          *)
C15_FgWaits ==
  [][/\ (Dispatched /\ last'.mode = "builtin" /\ last'.cmd = <<"fg">> /\ Len(last'.argv) >= 2)
          => LET n == Atoi(last'.argv[2])
             IN  IF n.ok /\ n.v >= 1 /\ n.v <= Len(jobs)
                 THEN /\ pc' = "fg"
                      /\ waitFor' = jobs[n.v].pid
                      /\ Tagged(sink', {"fg-no-such-job"}) = <<>>
                 ELSE /\ pc' = "idle"
                      /\ waitFor' = 0
                      /\ Tagged(sink', {"fg-no-such-job"})
                           = <<Out("fg-no-such-job", last'.argv[2], 0, 0)>>
     /\ (pc = "fg" /\ pc' # "fg") => (pc' = "idle" /\ waitFor \notin alive)
     /\ pc' = "fg" => (last'.cmd = <<"fg">> /\ waitFor' # 0)
     /\ pc' # "fg" => waitFor' = 0]_vars

C15_Witness ==
  /\ pc = "fg"
  /\ last.argv = <<(<<"fg">>), (<<"1">>)>>
  /\ Len(jobs) = 1
  /\ waitFor = jobs[1].pid
  /\ waitFor \in alive

(* C16: when executeRedirectedCommand has returned, by whichever path (the       *)
(* command ran, the file could not be created or opened, the process could not   *)
(* be started, it exited non-zero), no file handle it opened is still open.      *)
C16_HandlesClosed == openFiles = {}

C16_Witness ==
  /\ pc = "idle"
  /\ last.mode = "redirected"
  /\ last.line = <<"nope", SP, GT, SP, "f">>
  /\ <<"f">> \in DOMAIN files
  /\ Tagged(sink, {"error"}) # <<>>
  /\ Len(submitted) = 3
  /\ submitted[1] = <<"p", SP, "hi", SP, GT, SP, "d">>
  /\ submitted[2] = <<"p", SP, LT, SP, "g">>

(* C17: alias name=value leaves the map holding name -> value, the quotes        *)
(* stripped, also for a quoted value with spaces: after alias ll='ls -la' the    *)
(* map holds ll -> ls -la and the line ll runs ls -la; unalias removes the       *)
(* entry; an alias argument without = changes nothing and reports nothing.       *)
C17_AliasHoldsValue ==
  /\ (pc = "idle" /\ last.line = <<"alias", SP, "ll", EQ, QUOTE, "ls", SP, "-la", QUOTE>>)
       => (<<"ll">> \in DOMAIN aliases /\ aliases[<<"ll">>] = <<"ls", SP, "-la">>)
  /\ (pc = "idle" /\ last.line = <<"ll">> /\ <<"ll">> \in DOMAIN aliases)
       => last.argv = <<(<<"ls">>), (<<"-la">>)>>
  /\ (pc = "idle" /\ last.line = <<"alias", SP, "x", EQ, QUOTE, "z", QUOTE>>)
       => (<<"x">> \in DOMAIN aliases /\ aliases[<<"x">>] = <<"z">>)
  /\ (pc = "idle" /\ last.line = <<"unalias", SP, "x">>) => <<"x">> \notin DOMAIN aliases
  /\ (pc = "idle" /\ last.line = <<"alias", SP, "x">>)
       => Tagged(sink, {"alias", "error"}) = <<>>

(* C18: the environment map and the process environment agree on every name      *)
(* export, unset or the startup load touched: a name is in the map with a value  *)
(* exactly when the process environment holds that value for it.                 *)
C18_EnvMirrored ==
  /\ \A n \in DOMAIN envVars : n \in DOMAIN osEnv /\ osEnv[n] = envVars[n]
  /\ \A n \in DOMAIN osEnv :
       n \in DOMAIN envVars \/ (n \in DOMAIN InheritedEnv /\ osEnv[n] = InheritedEnv[n])

(* this step starts the next session *)
Restarted == session' = session + 1

(* C19: when exit has ended the session both files are written, the alias file   *)
(* with alias NAME='VALUE' for each alias and the environment file with          *)
(* NAME=VALUE for each variable, and the startup load of the next session gives  *)
(* exactly the alias map and the environment map exit left.                      *)
C19_MapsRoundTrip ==
  [][/\ status' = "exited"
          => /\ disk'.aliasFile
                  = FileLines({AliasLine(k, aliases'[k]) : k \in DOMAIN aliases'}
                                \cup {EnvLine(k, envVars'[k]) : k \in DOMAIN envVars'})
             /\ disk'.envFile = FileLines({EnvLine(k, envVars'[k]) : k \in DOMAIN envVars'})
             /\ last'.cmd = <<"exit">>
     /\ Restarted => (aliases' = aliases /\ envVars' = envVars)]_vars

(* C20: the history is kept across sessions: the History of the next session     *)
(* holds the lines of the session that exit ended.                               *)
C20_HistoryPersists ==
  [][Restarted
       => (Len(history') >= Len(history) /\ SubSeq(history', 1, Len(history)) = history)]_vars

(* the option and the value of a shell dispatch with the arguments args *)
ShellValue(args) == Join(Tail(args))

(* the dispatch shell args names a setting and a value the setting accepts *)
ShellAccepted(args) ==
  /\ Len(args) >= 2
  /\ \/ /\ args[1] = <<"bg-opacity">>
        /\ Atoi(ShellValue(args)).ok
        /\ Atoi(ShellValue(args)).v \in 0..100
     \/ /\ args[1] = <<"text-size">>
        /\ Atoi(ShellValue(args)).ok
        /\ Atoi(ShellValue(args)).v > 0
     \/ /\ args[1] = <<"text-bold">>
        /\ ShellValue(args) \in {<<"true">>, <<"false">>}
     \/ args[1] \in {<<"text-color">>, <<"prompt-style">>}

(* C21: whatever shell dispatches were made, the background opacity is in        *)
(* 0..100, the text size is above 0 and text-bold is the literal accepted last;  *)
(* a shell dispatch whose value is not accepted (out of range, not a number,     *)
(* not true/false, unknown option, no value) writes an error or usage line and   *)
(* changes no setting.                                                           *)
C21_ShellSettings ==
  [][/\ custom'.shellBgOpacity \in 0..100
     /\ custom'.shellTextSize \in Nat \ {0}
     /\ custom'.shellTextBold \in BOOLEAN
     /\ (Dispatched /\ last'.mode = "builtin" /\ last'.cmd = <<"shell">> /\ Len(last'.argv) >= 2)
          => IF ShellAccepted(Tail(last'.argv))
             THEN /\ Tagged(sink', {"shell-invalid", "shell-unknown", "shell-usage"}) = <<>>
                  /\ Tail(last'.argv)[1] = <<"text-bold">>
                       => custom'.shellTextBold = (ShellValue(Tail(last'.argv)) = <<"true">>)
                  /\ Tail(last'.argv)[1] = <<"bg-opacity">>
                       => custom'.shellBgOpacity = Atoi(ShellValue(Tail(last'.argv))).v
             ELSE /\ custom' = custom
                  /\ Len(Tagged(sink', {"shell-invalid", "shell-unknown", "shell-usage"})) = 1
     /\ (Dispatched /\ last'.cmd # <<"shell">>) => custom' = custom]_vars

C21_Witness ==
  /\ Len(submitted) = 3
  /\ submitted[1] = <<"shell", SP, "text-bold", SP, "true">>
  /\ submitted[2] = <<"shell", SP, "bg-opacity", SP, "50">>
  /\ submitted[3] = <<"shell", SP, "bg-opacity", SP, "101">>
  /\ pc = "idle"
  /\ custom.shellBgOpacity = 50
  /\ custom.shellTextBold
  /\ Tagged(sink, {"shell-invalid"}) # <<>>

(* the pending timers that will delete the entry of the name n *)
TimersOf(n) == {i \in 1..Len(timers) : timers[i].cmd = n}

(* C22: with the dispatches made one after the other and the eviction timers     *)
(* running at any time from when they are due, every entry of the path cache     *)
(* has exactly one pending timer, the one armed by the insertion that put it     *)
(* there, and no pending timer is left over from an earlier insertion.           *)
C22_OneTimerPerEntry ==
  /\ \A n \in DOMAIN commandCache :
       /\ Cardinality(TimersOf(n)) = 1
       /\ n \in DOMAIN scanned
       /\ commandCache[n] = scanned[n].path
       /\ \A i \in TimersOf(n) : timers[i].due = scanned[n].at + cacheExpiration
  /\ \A i \in 1..Len(timers) : timers[i].cmd \in DOMAIN commandCache

C22_Witness ==
  /\ <<"p">> \in DOMAIN commandCache
  /\ scanned[<<"p">>].at > cacheExpiration
  /\ <<"c">> \in DOMAIN commandCache
  /\ \E i \in TimersOf(<<"c">>) : timers[i].due < now
  /\ last.resolved = "hit"
  /\ last.argv = <<(<<"type">>), (<<"c">>)>>

(* the wait loop of executePipedCommands can go on: the stage it waits for has   *)
(* ended or did not start, or some running stage can come to its end             *)
WaitCanGoOn ==
  \/ WaitReturns(pipe.st, pipe.i)
  \/ \E i \in DOMAIN pipe.st : pipe.st[i] = "running" /\ CanExit(last.stages, pipe.st, i)

(* C23: executePipedCommands returns in the end, the programs of its stages      *)
(* ending once their input is at its end and their output is read or has no      *)
(* reader left; with a stage that failed to start the wait loop is never stuck   *)
(* behind a stage blocked writing into a pipe that nobody reads.                 *)
C23_PipelineReturns == pc = "pwait" => WaitCanGoOn

(* an eviction timer is due *)
TimerDue == \E i \in 1..Len(timers) : timers[i].due <= now

(* C24: mu is never held while the interpreter waits for a process (fg, or the   *)
(* stages of a pipeline) and no flow asks for mu while it holds it: every         *)
(* dispatch and every eviction timer has released mu when its step is over, so   *)
(* an eviction timer that is due can always take mu and delete its entry, also   *)
(* while fg is blocked; no state is a deadlock on mu.                             *)
C24_MuNeverHeldAcrossWait ==
  /\ mu = "free"
  /\ status # "deadlocked"
  /\ TimerDue => ENABLED TimerFire

C24_Witness ==
  /\ pc = "fg"
  /\ waitFor \in alive
  /\ TimerDue
  /\ mu = "free"
  /\ <<"p">> \in DOMAIN commandCache

====
